---- MODULE Spec2Model ----
(***************************************************************************)
(* DMA channel lifecycle of the atsamd HAL (hal/src/dmac/channel.rs).      *)
(*                                                                         *)
(* The typed handle Channel<Id, S> is modelled by status[i]; the DMAC      *)
(* register block by the record dmac.  Every operation of channel.rs is    *)
(* modelled by the register writes and reads the code issues, in program   *)
(* order; between two accesses that the DMA hardware can tell apart the    *)
(* mainline has a position (pc) at which the hardware may move.  The two   *)
(* spin-waits of the code (software reset, transfer completion) are such   *)
(* positions.                                                              *)
(*                                                                         *)
(* DFLL clock source (hal/src/thumbv7em/clock/v2/sources/dfll.rs): the     *)
(* token-level register primitives, the Dfll<Mode> wrapper and the         *)
(* Enabled<Dfll<Mode>, N> wrapper are modelled by osc, dfll, holder and    *)
(* the program of register accesses left to run (prog).                    *)
(***************************************************************************)
EXTENDS Integers, Sequences, FiniteSets, TLC

\* ------------------------------------------------------------------ bounds
Channels == {0, 1}                \* channel ids (Id::U8) of the model
Variants == {"samd21", "samd51"}  \* cfg(feature): shared selector / per-channel block
DISABLE == 0                      \* TriggerSource::DISABLE
TriggerSources == {DISABLE, 1}    \* DISABLE and one hardware trigger source
TriggerActions == {0, 2}          \* TriggerAction::BLOCK, TriggerAction::BEAT
PriorityLevels == {0, 1}          \* PriorityLevel::LVL0, LVL1
FifoValues == {0, 1}              \* FifoThreshold / BurstLength encodings
NoBlk == -1                       \* write addressed through the CHID selector / global register

Statuses == {"Uninitialized", "Ready", "Busy"}

VARIABLES
    variant,   \* chip family the HAL was built for
    dmac,      \* DMAC registers: chid, per-channel control fields, swtrigctrl, busych, pendch
    status,    \* status[i]: type-level status S of the one handle Channel<i, S>
    pc,        \* position of the mainline inside the running operation, or "idle"
    frame,     \* the running operation: name, channel (self), arguments
    ret,       \* value returned by the last xfer_complete()
    osc,       \* OSCCTRL registers of the DFLL: DFLLCTRLA, DFLLCTRLB, DFLLMUL, DFLLSYNC
    dfll,      \* the Dfll<Mode> value, bare or wrapped in Enabled<_, N>, if one exists
    holder,    \* what the clock-tree initializer holds: token, Pclk handles, Gclk0 handle
    prog       \* register accesses the running DFLL operation still has to make

dmaVars == <<variant, dmac, status, pc, frame, ret>>
clkVars == <<osc, dfll, holder, prog>>
vars == <<variant, dmac, status, pc, frame, ret, osc, dfll, holder, prog>>

\* ------------------------------------------------------- integer bit tricks
RECURSIVE BitAnd(_, _)
BitAnd(a, b) ==
    IF a = 0 \/ b = 0 THEN 0
    ELSE (a % 2) * (b % 2) + 2 * BitAnd(a \div 2, b \div 2)

RECURSIVE BitOr(_, _)
BitOr(a, b) ==
    IF a = 0 THEN b
    ELSE IF b = 0 THEN a
    ELSE (IF a % 2 = 1 \/ b % 2 = 1 THEN 1 ELSE 0) + 2 * BitOr(a \div 2, b \div 2)

\* a & !b on 8 bits
BitClear(a, b) == BitAnd(a, 255 - BitAnd(b, 255))

\* 1 << id; channel ids are below the register width, the shift cannot overflow
Shl(a, n) == a * (2 ^ n)

\* bit n of register value a
Bit(a, n) == (a \div (2 ^ n)) % 2

\* ------------------------------------------------------------ InterruptFlags
\* #[bitfield] struct InterruptFlags { terr, tcmpl, susp, #[skip] _reserved: B5 }
InterruptFlags == [terr : BOOLEAN, tcmpl : BOOLEAN, susp : BOOLEAN]

B(x) == IF x THEN 1 ELSE 0

\* no interrupt source named
NoFlags == [terr |-> FALSE, tcmpl |-> FALSE, susp |-> FALSE]

\* mutant of FlagsToBits: susp lands in the first reserved bit
FlagsToBits_SuspInReserved(f) == B(f.terr) + 2 * B(f.tcmpl) + 8 * B(f.susp)

\* flags.into(): u8
FlagsToBits(f) == B(f.terr) + 2 * B(f.tcmpl) + 4 * B(f.susp)

\* --------------------------------------------------------------- registers
\* startup state of one channel's control registers
ResetChan ==
    [swrst |-> 0, enable |-> 0, lvl |-> 0, trigsrc |-> 0, trigact |-> 0,
     threshold |-> 0, burstlen |-> 0, inten |-> 0, intflag |-> 0]

\* a register write: reg names the register, blk the channel block it is
\* addressed to (NoBlk: the channel selected by CHID, or a global register),
\* fields the fields written
W(reg, blk, fields) == [reg |-> reg, blk |-> blk, fields |-> fields]

\* channel whose registers a channel-register write lands in
Target(d, w) == IF w.blk = NoBlk THEN d.chid ELSE w.blk

\* effect of one write on the register block
Apply(d, w) ==
    CASE w.reg = "chid"       -> [d EXCEPT !.chid = w.fields.id]
      [] w.reg = "swtrigctrl" -> [d EXCEPT !.swtrigctrl = w.fields.bits]
      [] w.reg = "chintenset" ->
            [d EXCEPT !.chan[Target(d, w)].inten = BitOr(@, w.fields.bits)]
      [] w.reg = "chintenclr" ->
            [d EXCEPT !.chan[Target(d, w)].inten = BitClear(@, w.fields.bits)]
      [] w.reg = "chintflag" ->
            [d EXCEPT !.chan[Target(d, w)].intflag = BitClear(@, w.fields.bits)]
      [] OTHER ->
            [d EXCEPT !.chan[Target(d, w)] =
                [f \in DOMAIN @ |->
                    IF f \in DOMAIN w.fields THEN w.fields[f] ELSE @[f]]]

RECURSIVE ApplyAll(_, _)
ApplyAll(d, ws) ==
    IF ws = <<>> THEN d ELSE ApplyAll(Apply(d, Head(ws)), Tail(ws))

\* mutant of Select: the selector is left where the last access put it
Select_Never(i) == <<>>

\* with_chid: on samd11/samd21 the channel id is written to CHID before the
\* closure runs, and the closure's accesses go to the selected channel; on
\* samd51 the closure runs on dmac.channel[Id] and nothing is selected
Select(i) ==
    IF variant = "samd21" THEN <<W("chid", NoBlk, [id |-> i])>> ELSE <<>>

Blk(i) == IF variant = "samd21" THEN NoBlk ELSE i

\* the register that holds the priority level / the trigger fields
PrioReg == IF variant = "samd21" THEN "chctrlb" ELSE "chprilvl"
TrigReg == IF variant = "samd21" THEN "chctrlb" ELSE "chctrla"

\* _reset_private: d.chctrla.modify(|_, w| w.swrst().set_bit())
ResetWrites(i) == Select(i) \o <<W("chctrla", Blk(i), [swrst |-> 1])>>

\* mutant of SwrstSet: the reset bit never reads clear
SwrstSet_Stuck(d, i) == TRUE

\* mutant of SwrstSet: the reset bit is not waited for
SwrstSet_NoWait(d, i) == FALSE

\* _reset_private: d.chctrla.read().swrst().bit_is_set()
SwrstSet(d, i) == d.chan[Target(d, [blk |-> Blk(i)])].swrst = 1

\* init: the priority level, written in a with_chid of its own
PriorityWrites(i, lvl) == Select(i) \o <<W(PrioReg, Blk(i), [lvl |-> lvl])>>

\* mutant of StartFirstWrites: the channel is enabled before it is configured
StartFirstWrites_EnableFirst(i, src, act) ==
    Select(i) \o <<W("chctrla", Blk(i), [enable |-> 1]),
                   W(TrigReg, Blk(i), [trigsrc |-> src, trigact |-> act])>>

\* start: the first access of the closure, trigger source and action
StartFirstWrites(i, src, act) ==
    Select(i) \o <<W(TrigReg, Blk(i), [trigsrc |-> src, trigact |-> act])>>

\* start: the second access of the closure, the enable bit
StartSecondWrites(i) == <<W("chctrla", Blk(i), [enable |-> 1])>>

\* mutant of NeedsSoftwareTrigger: the comparison is inverted
NeedsSoftwareTrigger_Inverted(src) == src # DISABLE

\* start: `if trig_src == TriggerSource::DISABLE`
NeedsSoftwareTrigger(src) == src = DISABLE

\* _trigger_private: swtrigctrl.modify(|_, w| w.bits(1 << Id::U8))
TriggerWrites(i) == <<W("swtrigctrl", NoBlk, [bits |-> Shl(1, i)])>>

\* mutant of StopWrites: the enable bit is written as set
StopWrites_SetsEnable(i) == Select(i) \o <<W("chctrla", Blk(i), [enable |-> 1])>>

\* stop: d.chctrla.modify(|_, w| w.enable().clear_bit())
StopWrites(i) == Select(i) \o <<W("chctrla", Blk(i), [enable |-> 0])>>

\* mutant of BusyClear: the mask is not shifted to the channel's bit
BusyClear_NoShift(d, i) == BitAnd(d.busych, 1) = 0

\* xfer_complete: dmac.busych.read().bits() & (1 << id) == 0
BusyClear(d, i) == BitAnd(d.busych, Shl(1, i)) = 0

\* mutant of PendClear: the mask is not shifted to the channel's bit
PendClear_NoShift(d, i) == BitAnd(d.pendch, 1) = 0

\* xfer_complete: dmac.pendch.read().bits() & (1 << id) == 0
PendClear(d, i) == BitAnd(d.pendch, Shl(1, i)) = 0

\* status of the handle each transition returns
InitStatus == "Ready"
\* mutant of ResetStatus: reset returns a handle that still counts as Ready
ResetStatus_Ready == "Ready"
ResetStatus == "Uninitialized"
StartStatus == "Busy"
FreeStatus == "Ready"

\* statuses on which each transition is defined (the impl block it is in)
InitOn == Statuses
ResetOn == {"Ready"}
\* mutant of StartOn: start is defined on every channel that is not Busy
StartOn_NotBusy == {"Uninitialized", "Ready"}
StartOn == {"Ready"}
BusyOn == {"Busy"}

\* ------------------------------------------------------------------- DFLL
MaxDependents == 2                \* dependents counted on Enabled<Dfll, N>
PclkIds == {1, 2}                 \* the Pclk<Dfll48, T> reference clocks at hand
Factors == {500, 1000}            \* MultiplicationFactor values (u16)
Steps == {1, 2}                   \* CoarseMaximumStep / FineMaximumStep values (u8)
NoPclk == 0                       \* no reference clock held

\* reference_clk.freq(), in Hz: a 32.768 kHz crystal, a 1 kHz clock, a 1 MHz clock
PclkFreq(p) == IF p = 1 THEN 32768 ELSE IF p = 2 THEN 1000 ELSE 1000000

\* registers of the DFLL before any access of the token
ResetOsc ==
    [enable |-> 0, mode |-> 0, mul |-> 0, cstep |-> 0, fstep |-> 0, sync |-> {}]

\* no Dfll value exists
NoDfll ==
    [mode |-> "none", freq |-> 0, mul |-> 0, cstep |-> 0, fstep |-> 0,
     ref |-> NoPclk, enabled |-> FALSE, n |-> 0]

\* the clock-tree initializer at bring-up: the one token, the reference
\* clocks, no Gclk0 driven by the DFLL yet
BringUp == [token |-> TRUE, pclks |-> PclkIds, gclk0 |-> FALSE]

\* steps of a token-level primitive
Wr(reg, field, val) == [k |-> "write", reg |-> reg, field |-> field, val |-> val]
Wait(bit) == [k |-> "wait", bit |-> bit]

\* Registers::enable / disable
TokEnable == <<Wr("dfllctrla", "enable", 1), Wait("enable")>>
TokDisable == <<Wr("dfllctrla", "enable", 0), Wait("enable")>>

\* Registers::set_open_mode / set_closed_mode: `self.wait_sync_enable()`
TokSetOpenMode == <<Wr("dfllctrlb", "mode", 0), Wait("enable")>>
TokSetClosedMode == <<Wr("dfllctrlb", "mode", 1), Wait("enable")>>

\* Registers::set_fine_maximum_step / set_coarse_maximum_step /
\* set_multiplication_factor
TokSetFine(v) == <<Wr("dfllmul", "fstep", v), Wait("dfllmul")>>
TokSetCoarse(v) == <<Wr("dfllmul", "cstep", v), Wait("dfllmul")>>
TokSetMul(v) == <<Wr("dfllmul", "mul", v), Wait("dfllmul")>>

\* the end of an operation: the value it returns (a Dfll, bare or enabled
\* with n dependents) and the handles it gives back to the caller
Ret(enabled, n, gclk0, pclk) ==
    [k |-> "ret", enabled |-> enabled, n |-> n, gclk0 |-> gclk0, pclk |-> pclk]

\* Enabled::new(self): Enabled<Self, U0>
NewCount == 0

\* Enabled<T, N>::inc(): Enabled<T, N + 1>
Inc(n) == n + 1

\* Dfll::in_open_mode(token)
OpenDfll ==
    [mode |-> "open", freq |-> 48000000, mul |-> 1, cstep |-> 0,
     fstep |-> 0, ref |-> NoPclk, enabled |-> FALSE, n |-> 0]

\* Dfll::in_closed_mode(token, reference_clk, multiplication_factor,
\* coarse_maximum_step, fine_maximum_step)
ClosedDfll(p, m, c, f) ==
    [mode |-> "closed", freq |-> PclkFreq(p), mul |-> m, cstep |-> c,
     fstep |-> f, ref |-> p, enabled |-> FALSE, n |-> 0]

\* mutant of Freq: the multiplication factor is left out
Freq_BaseOnly(d) == d.freq

\* the product of a u32 and a u16 in 16-bit halves: lo is the product modulo
\* 2^16, hi the product divided by 2^16, which is below 2^16 exactly when the
\* product fits 32 bits (no intermediate value reaches 2^31)
MulHalves(a, b) ==
    LET al == a % 65536
        ah == a \div 65536
        bl == b % 256
        bh == b \div 256
        low == al * bl + ((al * bh) % 256) * 256
    IN  [lo |-> low % 65536,
         hi |-> ah * b + low \div 65536 + (al * bh) \div 256]

\* Dfll::freq: Hertz(self.freq.0 * self.multiplication_factor as u32), a
\* multiplication of two u32 that keeps the low 32 bits of the product
\* (a build with overflow checks panics where the product does not fit)
Freq(d) ==
    LET p == MulHalves(d.freq, d.mul)
    IN  (p.hi % 65536) * 65536 + p.lo

\* mutant of OpenEnableProg: the mode bit is cleared after the enable bit is set
OpenEnableProg_EnableFirst == TokEnable \o TokSetOpenMode

\* mutant of OpenEnableProg: the mode bit is left as it is
OpenEnableProg_ModeKept == TokEnable

\* Dfll<OpenLoop>::enable, register accesses
OpenEnableProg == TokSetOpenMode \o TokEnable

\* mutant of ClosedEnableProg: the multiplication factor is not written
ClosedEnableProg_MulKept(d) ==
    TokSetFine(d.fstep) \o TokSetCoarse(d.cstep) \o TokSetClosedMode

\* mutant of ClosedEnableProg: the mode bit is set before the tuning fields
ClosedEnableProg_ModeFirst(d) ==
    TokSetClosedMode \o TokSetFine(d.fstep) \o TokSetCoarse(d.cstep) \o TokSetMul(d.mul)

\* Dfll<ClosedLoop<T>>::enable, register accesses
ClosedEnableProg(d) ==
    TokSetFine(d.fstep) \o TokSetCoarse(d.cstep) \o TokSetMul(d.mul) \o TokSetClosedMode

\* dependent counts on which disable and the mode switches are defined
\* (impl Enabled<Dfll<TMode>, U0>, impl Enabled<Dfll<_>, U1>)
\* mutant of DisableOn: disable is defined on every dependent count
DisableOn_AnyCount == 0..MaxDependents

DisableOn == {0}

\* mutant of SwitchOn: the mode switches are defined on every dependent count
SwitchOn_AnyCount == 0..MaxDependents

SwitchOn == {1}

\* mutant of ClosedFreePclk: the other reference clock is handed back
ClosedFreePclk_Other(d) == 3 - d.ref

\* Dfll<ClosedLoop<T>>::free: (self.token, self.mode.reference_clk)
ClosedFreePclk(d) == d.ref

Idle == prog = <<>>

\* Dfll::in_open_mode
InOpenMode ==
    /\ Idle /\ holder.token
    /\ dfll' = OpenDfll
    /\ holder' = [holder EXCEPT !.token = FALSE]
    /\ UNCHANGED <<dmaVars, osc, prog>>

\* Dfll::in_closed_mode
InClosedMode(p, m, c, f) ==
    /\ Idle /\ holder.token /\ p \in holder.pclks
    /\ dfll' = ClosedDfll(p, m, c, f)
    /\ holder' = [holder EXCEPT !.token = FALSE, !.pclks = @ \ {p}]
    /\ UNCHANGED <<dmaVars, osc, prog>>

\* mutant of OpenFree: the token is not handed back
OpenFree_DropsToken ==
    /\ Idle /\ dfll.mode = "open" /\ ~dfll.enabled
    /\ dfll' = NoDfll
    /\ UNCHANGED <<dmaVars, osc, holder, prog>>

\* Dfll<OpenLoop>::free
OpenFree ==
    /\ Idle /\ dfll.mode = "open" /\ ~dfll.enabled
    /\ dfll' = NoDfll
    /\ holder' = [holder EXCEPT !.token = TRUE]
    /\ UNCHANGED <<dmaVars, osc, prog>>

\* Dfll<ClosedLoop<T>>::free
ClosedFree ==
    /\ Idle /\ dfll.mode = "closed" /\ ~dfll.enabled
    /\ dfll' = NoDfll
    /\ holder' = [holder EXCEPT !.token = TRUE, !.pclks = @ \cup {ClosedFreePclk(dfll)}]
    /\ UNCHANGED <<dmaVars, osc, prog>>

\* Dfll<ClosedLoop<T>>::set_multiplication_factor / set_coarse_maximum_step /
\* set_fine_maximum_step
SetMultiplicationFactor(m) ==
    /\ Idle /\ dfll.mode = "closed" /\ ~dfll.enabled
    /\ dfll' = [dfll EXCEPT !.mul = m]
    /\ UNCHANGED <<dmaVars, osc, holder, prog>>

SetCoarseMaximumStep(c) ==
    /\ Idle /\ dfll.mode = "closed" /\ ~dfll.enabled
    /\ dfll' = [dfll EXCEPT !.cstep = c]
    /\ UNCHANGED <<dmaVars, osc, holder, prog>>

SetFineMaximumStep(f) ==
    /\ Idle /\ dfll.mode = "closed" /\ ~dfll.enabled
    /\ dfll' = [dfll EXCEPT !.fstep = f]
    /\ UNCHANGED <<dmaVars, osc, holder, prog>>

\* Dfll<OpenLoop>::enable is entered
OpenEnableCall ==
    /\ Idle /\ dfll.mode = "open" /\ ~dfll.enabled
    /\ prog' = OpenEnableProg \o <<Ret(TRUE, NewCount, FALSE, NoPclk)>>
    /\ UNCHANGED <<dmaVars, osc, dfll, holder>>

\* Dfll<ClosedLoop<T>>::enable is entered
ClosedEnableCall ==
    /\ Idle /\ dfll.mode = "closed" /\ ~dfll.enabled
    /\ prog' = ClosedEnableProg(dfll) \o <<Ret(TRUE, NewCount, FALSE, NoPclk)>>
    /\ UNCHANGED <<dmaVars, osc, dfll, holder>>

\* Enabled<Dfll<TMode>, U0>::disable is entered
DisableCall ==
    /\ Idle /\ dfll.enabled /\ dfll.n \in DisableOn
    /\ prog' = TokDisable \o <<Ret(FALSE, 0, FALSE, NoPclk)>>
    /\ UNCHANGED <<dmaVars, osc, dfll, holder>>

\* Enabled<Dfll<OpenLoop>, U1>::to_closed_mode is entered: self.0.free(),
\* Dfll::in_closed_mode, then dfll.enable().inc()
ToClosedModeCall(p, m, c, f) ==
    /\ Idle /\ dfll.enabled /\ dfll.mode = "open" /\ dfll.n \in SwitchOn
    /\ holder.gclk0 /\ p \in holder.pclks
    /\ dfll' = ClosedDfll(p, m, c, f)
    /\ holder' = [holder EXCEPT !.gclk0 = FALSE, !.pclks = @ \ {p}]
    /\ prog' = ClosedEnableProg(ClosedDfll(p, m, c, f)) \o <<Ret(TRUE, Inc(NewCount), TRUE, NoPclk)>>
    /\ UNCHANGED <<dmaVars, osc>>

\* Enabled<Dfll<ClosedLoop<T>>, U1>::to_open_mode is entered: self.0.free(),
\* Dfll::in_open_mode, then dfll.enable().inc()
ToOpenModeCall ==
    /\ Idle /\ dfll.enabled /\ dfll.mode = "closed" /\ dfll.n \in SwitchOn
    /\ holder.gclk0
    /\ dfll' = OpenDfll
    /\ holder' = [holder EXCEPT !.gclk0 = FALSE]
    /\ prog' = OpenEnableProg \o <<Ret(TRUE, Inc(NewCount), TRUE, ClosedFreePclk(dfll))>>
    /\ UNCHANGED <<dmaVars, osc>>

\* register group of DFLLSYNC that a write makes busy
SyncBitOf(reg) == IF reg = "dfllctrla" THEN "enable" ELSE reg

\* a token primitive writes its register field
TokenWrite ==
    /\ prog # <<>> /\ Head(prog).k = "write"
    /\ osc' = [osc EXCEPT ![Head(prog).field] = Head(prog).val,
                          !.sync = @ \cup {SyncBitOf(Head(prog).reg)}]
    /\ prog' = Tail(prog)
    /\ UNCHANGED <<dmaVars, dfll, holder>>

\* wait_sync_*: the polled bit of DFLLSYNC reads clear
TokenWait ==
    /\ prog # <<>> /\ Head(prog).k = "wait"
    /\ Head(prog).bit \notin osc.sync
    /\ prog' = Tail(prog)
    /\ UNCHANGED <<dmaVars, osc, dfll, holder>>

\* the operation returns its Dfll and hands the handles back
DfllReturn ==
    /\ prog # <<>> /\ Head(prog).k = "ret"
    /\ dfll' = [dfll EXCEPT !.enabled = Head(prog).enabled, !.n = Head(prog).n]
    /\ holder' = [holder EXCEPT
                    !.gclk0 = @ \/ Head(prog).gclk0,
                    !.pclks = @ \cup (IF Head(prog).pclk = NoPclk THEN {} ELSE {Head(prog).pclk})]
    /\ prog' = Tail(prog)
    /\ UNCHANGED <<dmaVars, osc>>

\* the hardware has taken over a written register group
HwSync(g) ==
    /\ g \in osc.sync
    /\ osc' = [osc EXCEPT !.sync = @ \ {g}]
    /\ UNCHANGED <<dmaVars, dfll, holder, prog>>

\* Gclk0 takes the enabled DFLL as its source: Enabled<_, N> -> Enabled<_, N+1>,
\* the Gclk0<marker::Dfll> handle comes into being
SubscribeGclk0 ==
    /\ Idle /\ dfll.enabled /\ ~holder.gclk0 /\ dfll.n < MaxDependents
    /\ dfll' = [dfll EXCEPT !.n = @ + 1]
    /\ holder' = [holder EXCEPT !.gclk0 = TRUE]
    /\ UNCHANGED <<dmaVars, osc, prog>>

\* Gclk0 leaves the DFLL: its handle is consumed, Enabled<_, N> -> Enabled<_, N-1>
ReleaseGclk0 ==
    /\ Idle /\ dfll.enabled /\ holder.gclk0 /\ dfll.n > 0
    /\ dfll' = [dfll EXCEPT !.n = @ - 1]
    /\ holder' = [holder EXCEPT !.gclk0 = FALSE]
    /\ UNCHANGED <<dmaVars, osc, prog>>

\* another consumer subscribes to / releases the enabled DFLL
Subscribe ==
    /\ Idle /\ dfll.enabled /\ dfll.n < MaxDependents
    /\ dfll' = [dfll EXCEPT !.n = @ + 1]
    /\ UNCHANGED <<dmaVars, osc, holder, prog>>

Release ==
    /\ Idle /\ dfll.enabled /\ dfll.n > (IF holder.gclk0 THEN 1 ELSE 0)
    /\ dfll' = [dfll EXCEPT !.n = @ - 1]
    /\ UNCHANGED <<dmaVars, osc, holder, prog>>

NextDfll ==
    \/ InOpenMode
    \/ \E p \in PclkIds, m \in Factors, c \in Steps, f \in Steps : InClosedMode(p, m, c, f)
    \/ OpenFree
    \/ ClosedFree
    \/ \E m \in Factors : SetMultiplicationFactor(m)
    \/ \E c \in Steps : SetCoarseMaximumStep(c)
    \/ \E f \in Steps : SetFineMaximumStep(f)
    \/ OpenEnableCall
    \/ ClosedEnableCall
    \/ DisableCall
    \/ \E p \in PclkIds, m \in Factors, c \in Steps, f \in Steps : ToClosedModeCall(p, m, c, f)
    \/ ToOpenModeCall
    \/ TokenWrite
    \/ TokenWait
    \/ DfllReturn
    \/ \E g \in {"enable", "dfllctrlb", "dfllmul"} : HwSync(g)
    \/ SubscribeGclk0
    \/ ReleaseGclk0
    \/ Subscribe
    \/ Release

\* ------------------------------------------------------------------- Init
NoFrame == [op |-> "none", ch |-> 0, lvl |-> 0, src |-> 0, act |-> 0, flags |-> NoFlags]

Frame(op, i, lvl, src, act) ==
    [op |-> op, ch |-> i, lvl |-> lvl, src |-> src, act |-> act, flags |-> NoFlags]

\* new_chan for every channel id, registers in their startup state
Init ==
    /\ variant \in Variants
    /\ dmac = [chid |-> 0, chan |-> [i \in Channels |-> ResetChan],
               swtrigctrl |-> 0, busych |-> 0, pendch |-> 0]
    /\ status = [i \in Channels |-> "Uninitialized"]
    /\ pc = "idle"
    /\ frame = NoFrame
    /\ ret = FALSE
    /\ osc = ResetOsc
    /\ dfll = NoDfll
    /\ holder = BringUp
    /\ prog = <<>>

\* the running operation returns a handle of status st
Return(st) ==
    /\ status' = [status EXCEPT ![frame.ch] = st]
    /\ pc' = "idle"
    /\ frame' = NoFrame

\* ------------------------------------------------------- any-status methods
\* impl<Id: ChId, S: Status> Channel<Id, S>
\* init: self._reset_private() up to its wait
InitCall(i, lvl) ==
    /\ pc = "idle"
    /\ status[i] \in InitOn
    /\ dmac' = ApplyAll(dmac, ResetWrites(i))
    /\ pc' = "init_wait"
    /\ frame' = Frame("init", i, lvl, 0, 0)
    /\ UNCHANGED <<clkVars, variant, status, ret>>

\* init: the wait of _reset_private ends, the priority level is programmed
InitReturn ==
    /\ pc = "init_wait"
    /\ ~SwrstSet(dmac, frame.ch)
    /\ dmac' = ApplyAll(dmac, PriorityWrites(frame.ch, frame.lvl))
    /\ Return(InitStatus)
    /\ UNCHANGED <<clkVars, variant, ret>>

\* ------------------------------------------------------------ Ready methods
\* impl<Id: ChId> Channel<Id, Ready>
ResetCall(i) ==
    /\ pc = "idle"
    /\ status[i] \in ResetOn
    /\ dmac' = ApplyAll(dmac, ResetWrites(i))
    /\ pc' = "reset_wait"
    /\ frame' = Frame("reset", i, 0, 0, 0)
    /\ UNCHANGED <<clkVars, variant, status, ret>>

ResetReturn ==
    /\ pc = "reset_wait"
    /\ ~SwrstSet(dmac, frame.ch)
    /\ Return(ResetStatus)
    /\ UNCHANGED <<clkVars, variant, dmac, ret>>

\* mutant of ThresholdWrites: the register is written whole, the fields that
\* are not named take their reset value
ThresholdWrites_Whole(i, n) ==
    Select(i) \o <<W("chctrla", Blk(i), [ResetChan EXCEPT !.threshold = n])>>

\* fifo_threshold: d.chctrla.modify(|_, w| w.threshold().bits(threshold as u8))
ThresholdWrites(i, n) == Select(i) \o <<W("chctrla", Blk(i), [threshold |-> n])>>

\* burst_length: d.chctrla.modify(|_, w| w.burstlen().bits(burst_length as u8))
BurstWrites(i, n) == Select(i) \o <<W("chctrla", Blk(i), [burstlen |-> n])>>

\* the FIFO methods exist on the per-channel-block family only
\* (#[cfg(feature = "min-samd51g")]), in impl Channel<Id, Ready>
FifoOn == {"Ready"}

\* fifo_threshold(&mut self, threshold): the handle stays as it is
FifoThreshold(i, n) ==
    /\ variant = "samd51"
    /\ pc = "idle"
    /\ status[i] \in FifoOn
    /\ dmac' = ApplyAll(dmac, ThresholdWrites(i, n))
    /\ UNCHANGED <<clkVars, variant, status, pc, frame, ret>>

\* burst_length(&mut self, burst_length): the handle stays as it is
BurstLength(i, n) ==
    /\ variant = "samd51"
    /\ pc = "idle"
    /\ status[i] \in FifoOn
    /\ dmac' = ApplyAll(dmac, BurstWrites(i, n))
    /\ UNCHANGED <<clkVars, variant, status, pc, frame, ret>>

\* start: trigger source and action are written
StartCall(i, src, act) ==
    /\ pc = "idle"
    /\ status[i] \in StartOn
    /\ dmac' = ApplyAll(dmac, StartFirstWrites(i, src, act))
    /\ pc' = "start_enable"
    /\ frame' = Frame("start", i, 0, src, act)
    /\ UNCHANGED <<clkVars, variant, status, ret>>

\* start: the enable bit is written; without a software trigger start returns
StartEnable ==
    /\ pc = "start_enable"
    /\ dmac' = ApplyAll(dmac, StartSecondWrites(frame.ch))
    /\ IF NeedsSoftwareTrigger(frame.src)
       THEN /\ pc' = "start_trigger"
            /\ UNCHANGED <<status, frame>>
       ELSE Return(StartStatus)
    /\ UNCHANGED <<clkVars, variant, ret>>

\* start: self._trigger_private(), then return
StartTrigger ==
    /\ pc = "start_trigger"
    /\ dmac' = ApplyAll(dmac, TriggerWrites(frame.ch))
    /\ Return(StartStatus)
    /\ UNCHANGED <<clkVars, variant, ret>>

\* ------------------------------------------------------------- Busy methods
\* impl<Id: ChId> Channel<Id, Busy>
SoftwareTrigger(i) ==
    /\ pc = "idle"
    /\ status[i] \in BusyOn
    /\ dmac' = ApplyAll(dmac, TriggerWrites(i))
    /\ UNCHANGED <<clkVars, variant, status, pc, frame, ret>>

\* xfer_complete is entered
XferCall(i) ==
    /\ pc = "idle"
    /\ status[i] \in BusyOn
    /\ pc' = "xfer_busy"
    /\ frame' = Frame("xfer_complete", i, 0, 0, 0)
    /\ UNCHANGED <<clkVars, variant, dmac, status, ret>>

\* xfer_complete: BUSYCH is read; `&&` returns false at once if the bit is set
XferReadBusy ==
    /\ pc = "xfer_busy"
    /\ IF BusyClear(dmac, frame.ch)
       THEN /\ pc' = "xfer_pend"
            /\ UNCHANGED <<frame, ret>>
       ELSE /\ ret' = FALSE
            /\ pc' = "idle"
            /\ frame' = NoFrame
    /\ UNCHANGED <<clkVars, variant, dmac, status>>

\* xfer_complete: PENDCH is read, the result is returned
XferReadPend ==
    /\ pc = "xfer_pend"
    /\ ret' = PendClear(dmac, frame.ch)
    /\ pc' = "idle"
    /\ frame' = NoFrame
    /\ UNCHANGED <<clkVars, variant, dmac, status>>

\* stop: the enable bit is cleared, then self.free() is entered
StopCall(i) ==
    /\ pc = "idle"
    /\ status[i] \in BusyOn
    /\ dmac' = ApplyAll(dmac, StopWrites(i))
    /\ pc' = "free_busy"
    /\ frame' = Frame("stop", i, 0, 0, 0)
    /\ UNCHANGED <<clkVars, variant, status, ret>>

\* free is entered
FreeCall(i) ==
    /\ pc = "idle"
    /\ status[i] \in BusyOn
    /\ pc' = "free_busy"
    /\ frame' = Frame("free", i, 0, 0, 0)
    /\ UNCHANGED <<clkVars, variant, dmac, status, ret>>

\* free: `while !self.xfer_complete() {}`, BUSYCH is read and found clear
\* (found set, the loop polls again from the same position)
FreeReadBusy ==
    /\ pc = "free_busy"
    /\ BusyClear(dmac, frame.ch)
    /\ pc' = "free_pend"
    /\ UNCHANGED <<clkVars, variant, dmac, status, frame, ret>>

\* free: PENDCH is read; clear, free returns; set, the loop polls again
FreeReadPend ==
    /\ pc = "free_pend"
    /\ IF PendClear(dmac, frame.ch)
       THEN Return(FreeStatus)
       ELSE /\ pc' = "free_busy"
            /\ UNCHANGED <<status, frame>>
    /\ UNCHANGED <<clkVars, variant, dmac, ret>>

\* mutant of IntenReg: the set and the clear register are swapped
IntenReg_Swapped(op) == IF op = "enable_interrupts" THEN "chintenclr" ELSE "chintenset"

\* enable_interrupts / disable_interrupts: the register written
IntenReg(op) == IF op = "enable_interrupts" THEN "chintenset" ELSE "chintenclr"

\* d.chintenset.write(|w| w.bits(flags.into())) / d.chintenclr.write(...)
InterruptWrites(op, i, f) == <<W(IntenReg(op), Blk(i), [bits |-> FlagsToBits(f)])>>

\* enable_interrupts: with_chid selects the channel
EnableInterruptsCall(i, f) ==
    /\ pc = "idle"
    /\ status[i] \in Statuses
    /\ dmac' = ApplyAll(dmac, Select(i))
    /\ pc' = "inten_write"
    /\ frame' = [Frame("enable_interrupts", i, 0, 0, 0) EXCEPT !.flags = f]
    /\ UNCHANGED <<clkVars, variant, status, ret>>

\* disable_interrupts: with_chid selects the channel
DisableInterruptsCall(i, f) ==
    /\ pc = "idle"
    /\ status[i] \in Statuses
    /\ dmac' = ApplyAll(dmac, Select(i))
    /\ pc' = "inten_write"
    /\ frame' = [Frame("disable_interrupts", i, 0, 0, 0) EXCEPT !.flags = f]
    /\ UNCHANGED <<clkVars, variant, status, ret>>

\* enable_interrupts / disable_interrupts: the closure writes the flags and
\* the method returns, the handle as it was
InterruptsWrite ==
    /\ pc = "inten_write"
    /\ dmac' = ApplyAll(dmac, InterruptWrites(frame.op, frame.ch, frame.flags))
    /\ Return(status[frame.ch])
    /\ UNCHANGED <<clkVars, variant, ret>>

\* --------------------------------------------------------- interrupt layer
\* mainline positions inside a with_chid closure
InClosure == pc \in {"init_wait", "reset_wait", "start_enable", "inten_write"}

\* mutant of Masked: with_chid runs its closure with interrupts enabled
Masked_Never == FALSE

\* cortex_m::interrupt::free around the CHID write and the closure
Masked == variant = "samd21" /\ InClosure

\* callback: one `if d.chintflag.read().<flag>().bit_is_set() {
\* d.chintflag.modify(|_, w| w.<flag>().set_bit()) }` for the flag at bit k;
\* modify writes the value read with the flag's bit set
CallbackCheck(d, j, k) ==
    LET v == d.chan[Target(d, [blk |-> Blk(j)])].intflag
    IN  IF Bit(v, k) = 1
        THEN Apply(d, W("chintflag", Blk(j), [bits |-> BitOr(v, Shl(1, k))]))
        ELSE d

\* Channel<Id, Busy>::callback (samd11/samd21), run by the interrupt handler:
\* tcmpl, terr, susp in this order
Callback(j) ==
    /\ variant = "samd21"
    /\ ~Masked
    /\ status[j] \in BusyOn
    /\ pc = "idle" \/ j # frame.ch
    /\ dmac' = CallbackCheck(CallbackCheck(CallbackCheck(
                   ApplyAll(dmac, Select(j)), j, 1), j, 0), j, 2)
    /\ UNCHANGED <<clkVars, variant, status, pc, frame, ret>>

\* callback, check by check: entered by the interrupt handler between two
\* operations of the mainline; with_chid selects the channel
CallbackCall(j) ==
    /\ variant = "samd21"
    /\ pc = "idle"
    /\ status[j] \in BusyOn
    /\ dmac' = ApplyAll(dmac, Select(j))
    /\ pc' = "cb_tcmpl"
    /\ frame' = Frame("callback", j, 0, 0, 0)
    /\ UNCHANGED <<clkVars, variant, status, ret>>

\* callback: d.chintflag.read().<flag>().bit_is_set() for the flag at bit k
CallbackSees(d, j, k) == Bit(d.chan[Target(d, [blk |-> Blk(j)])].intflag, k) = 1

\* callback: the check of the flag at bit k, its body recorded in the frame
\* as having run; after the check of susp the closure ends and callback returns
CallbackStep(here, k, next) ==
    /\ pc = here
    /\ dmac' = CallbackCheck(dmac, frame.ch, k)
    /\ IF next = "idle"
       THEN Return(status[frame.ch])
       ELSE /\ pc' = next
            /\ frame' = [frame EXCEPT
                           !.flags.tcmpl = @ \/ (k = 1 /\ CallbackSees(dmac, frame.ch, k)),
                           !.flags.terr = @ \/ (k = 0 /\ CallbackSees(dmac, frame.ch, k))]
            /\ UNCHANGED status
    /\ UNCHANGED <<clkVars, variant, ret>>

\* ----------------------------------------------------------------- hardware
\* the software reset completes: the channel is back in its startup state
\* ("Reset the channel to its startup state and wait for reset to complete")
HwResetDone(i) ==
    /\ dmac.chan[i].swrst = 1
    /\ dmac' = [dmac EXCEPT !.chan[i] = ResetChan]
    /\ UNCHANGED <<clkVars, variant, status, pc, frame, ret>>

\* a software trigger of an enabled channel is accepted: the channel is pending
HwSwTrigger(i) ==
    /\ Bit(dmac.swtrigctrl, i) = 1
    /\ dmac.chan[i].enable = 1
    /\ Bit(dmac.pendch, i) = 0
    /\ dmac' = [dmac EXCEPT !.swtrigctrl = @ - Shl(1, i),
                            !.pendch = @ + Shl(1, i)]
    /\ UNCHANGED <<clkVars, variant, status, pc, frame, ret>>

\* the configured trigger source of an enabled channel fires
HwTrigger(i) ==
    /\ dmac.chan[i].enable = 1
    /\ dmac.chan[i].trigsrc # DISABLE
    /\ Bit(dmac.pendch, i) = 0
    /\ Bit(dmac.busych, i) = 0
    /\ dmac' = [dmac EXCEPT !.pendch = @ + Shl(1, i)]
    /\ UNCHANGED <<clkVars, variant, status, pc, frame, ret>>

\* "when the arbiter begins to service the channel, PENDCH is cleared and
\* BUSYCH is set"
HwGrant(i) ==
    /\ Bit(dmac.pendch, i) = 1
    /\ Bit(dmac.busych, i) = 0
    /\ dmac' = [dmac EXCEPT !.pendch = @ - Shl(1, i),
                            !.busych = @ + Shl(1, i)]
    /\ UNCHANGED <<clkVars, variant, status, pc, frame, ret>>

\* the transfer ends: the channel is no longer actively transferring
HwComplete(i) ==
    /\ Bit(dmac.busych, i) = 1
    /\ dmac' = [dmac EXCEPT !.busych = @ - Shl(1, i)]
    /\ UNCHANGED <<clkVars, variant, status, pc, frame, ret>>

\* an enabled channel raises interrupt flag k (0 terr, 1 tcmpl, 2 susp)
HwRaise(j, k) ==
    /\ dmac.chan[j].enable = 1
    /\ Bit(dmac.chan[j].intflag, k) = 0
    /\ dmac' = [dmac EXCEPT !.chan[j].intflag = @ + Shl(1, k)]
    /\ UNCHANGED <<clkVars, variant, status, pc, frame, ret>>

\* ------------------------------------------------------------------- Next
Next ==
    \/ \E i \in Channels, lvl \in PriorityLevels : InitCall(i, lvl)
    \/ InitReturn
    \/ \E i \in Channels : ResetCall(i)
    \/ ResetReturn
    \/ \E i \in Channels, s \in TriggerSources, a \in TriggerActions : StartCall(i, s, a)
    \/ StartEnable
    \/ StartTrigger
    \/ \E i \in Channels : SoftwareTrigger(i)
    \/ \E i \in Channels : XferCall(i)
    \/ XferReadBusy
    \/ XferReadPend
    \/ \E i \in Channels : StopCall(i)
    \/ \E i \in Channels : FreeCall(i)
    \/ FreeReadBusy
    \/ FreeReadPend
    \/ \E i \in Channels : HwResetDone(i)
    \/ \E i \in Channels : HwSwTrigger(i)
    \/ \E i \in Channels : HwTrigger(i)
    \/ \E i \in Channels : HwGrant(i)
    \/ \E i \in Channels : HwComplete(i)

Spec == Init /\ [][Next]_vars

\* the DFLL and its clock-tree handles alone
SpecDfll == Init /\ [][NextDfll]_vars

\* reference clocks and multiplication factors over the whole u16 range
FreqPclkIds == {1, 3}
FreqFactors == {1000, 5000, 65535}

\* the clock-tree initializer holds the 32.768 kHz and the 1 MHz clock
InitFreq ==
    /\ variant = "samd51"
    /\ dmac = [chid |-> 0, chan |-> [i \in Channels |-> ResetChan],
               swtrigctrl |-> 0, busych |-> 0, pendch |-> 0]
    /\ status = [i \in Channels |-> "Uninitialized"]
    /\ pc = "idle"
    /\ frame = NoFrame
    /\ ret = FALSE
    /\ osc = ResetOsc
    /\ dfll = NoDfll
    /\ holder = [BringUp EXCEPT !.pclks = FreqPclkIds]
    /\ prog = <<>>

\* a Dfll of either mode built, retuned, enabled, disabled and freed
NextFreq ==
    \/ InOpenMode
    \/ \E p \in FreqPclkIds, m \in FreqFactors, c \in Steps : InClosedMode(p, m, c, 1)
    \/ OpenFree
    \/ ClosedFree
    \/ \E m \in FreqFactors : SetMultiplicationFactor(m)
    \/ OpenEnableCall
    \/ ClosedEnableCall
    \/ DisableCall
    \/ TokenWrite
    \/ TokenWait
    \/ DfllReturn
    \/ \E g \in {"enable", "dfllctrlb", "dfllmul"} : HwSync(g)

SpecFreq == InitFreq /\ [][NextFreq]_vars

\* the interrupt enables next to the lifecycle
NextInt ==
    \/ \E i \in Channels : InitCall(i, 0)
    \/ InitReturn
    \/ \E i \in Channels : ResetCall(i)
    \/ ResetReturn
    \/ \E i \in Channels : StartCall(i, 1, 0)
    \/ StartEnable
    \/ \E i \in Channels : StopCall(i)
    \/ FreeReadBusy
    \/ FreeReadPend
    \/ \E i \in Channels, f \in InterruptFlags : EnableInterruptsCall(i, f)
    \/ \E i \in Channels, f \in InterruptFlags : DisableInterruptsCall(i, f)
    \/ InterruptsWrite
    \/ \E i \in Channels : HwResetDone(i)

SpecInt == Init /\ [][NextInt]_vars

\* flags the mainline enables while the interrupt layer is live
IrqFlags == {[terr |-> TRUE, tcmpl |-> TRUE, susp |-> FALSE]}

\* shared-selector variant with the interrupt handler live
InitIrq == Init /\ variant = "samd21"

NextIrq ==
    \/ \E i \in Channels : InitCall(i, 0)
    \/ InitReturn
    \/ \E i \in Channels : ResetCall(i)
    \/ ResetReturn
    \/ \E i \in Channels : StartCall(i, 1, 0)
    \/ StartEnable
    \/ \E i \in Channels : StopCall(i)
    \/ FreeReadBusy
    \/ FreeReadPend
    \/ \E i \in Channels, f \in IrqFlags : EnableInterruptsCall(i, f)
    \/ \E i \in Channels, f \in IrqFlags : DisableInterruptsCall(i, f)
    \/ InterruptsWrite
    \/ \E j \in Channels : Callback(j)
    \/ \E i \in Channels : HwResetDone(i)
    \/ \E j \in Channels, k \in 0..2 : HwRaise(j, k)

SpecIrq == InitIrq /\ [][NextIrq]_vars

\* the interrupt callback check by check, the flags raised by the hardware
NextCb ==
    \/ \E i \in Channels : InitCall(i, 0)
    \/ InitReturn
    \/ \E i \in Channels : StartCall(i, 1, 0)
    \/ StartEnable
    \/ \E i \in Channels : StopCall(i)
    \/ FreeReadBusy
    \/ FreeReadPend
    \/ \E j \in Channels : CallbackCall(j)
    \/ CallbackStep("cb_tcmpl", 1, "cb_terr")
    \/ CallbackStep("cb_terr", 0, "cb_susp")
    \/ CallbackStep("cb_susp", 2, "idle")
    \/ \E i \in Channels : HwResetDone(i)
    \/ \E j \in Channels, k \in 0..2 : HwRaise(j, k)

SpecCb == InitIrq /\ [][NextCb]_vars

\* both families: the whole configuration surface of a channel, the FIFO
\* methods where they exist, the interrupt handler where it exists
NextChan ==
    \/ \E i \in Channels : InitCall(i, 1)
    \/ InitReturn
    \/ \E i \in Channels : ResetCall(i)
    \/ ResetReturn
    \/ \E i \in Channels : StartCall(i, 1, 2)
    \/ StartEnable
    \/ \E i \in Channels : StopCall(i)
    \/ \E i \in Channels : FreeCall(i)
    \/ FreeReadBusy
    \/ FreeReadPend
    \/ \E i \in Channels, f \in IrqFlags : EnableInterruptsCall(i, f)
    \/ \E i \in Channels, f \in IrqFlags : DisableInterruptsCall(i, f)
    \/ InterruptsWrite
    \/ \E i \in Channels, n \in FifoValues : FifoThreshold(i, n)
    \/ \E i \in Channels, n \in FifoValues : BurstLength(i, n)
    \/ \E j \in Channels : Callback(j)
    \/ \E i \in Channels : HwResetDone(i)
    \/ \E j \in Channels : HwRaise(j, 1)

SpecChan == Init /\ [][NextChan]_vars

\* one thread of execution: a DFLL method is entered and runs only while no
\* channel method runs, and the other way round; the hardware runs beside both

\* a closed-loop DFLL built, enabled, disabled and freed: its operations wait
\* on the DFLLMUL and on the ENABLE sync-busy bit (the DFLL is part of the
\* thumbv7em clock tree, i.e. of the samd51 family)
DfllLive ==
    /\ variant = "samd51"
    /\ pc = "idle"
    /\ \/ InClosedMode(1, 1000, 1, 2)
       \/ ClosedEnableCall
       \/ DisableCall
       \/ ClosedFree
       \/ TokenWrite
       \/ TokenWait
       \/ DfllReturn

\* the channel lifecycle with software triggers
DmaLive ==
    /\ prog = <<>>
    /\ \/ \E i \in Channels : InitCall(i, 0)
       \/ InitReturn
       \/ \E i \in Channels : ResetCall(i)
       \/ ResetReturn
       \/ \E i \in Channels : StartCall(i, DISABLE, 0)
       \/ StartEnable
       \/ StartTrigger
       \/ \E i \in Channels : StopCall(i)
       \/ \E i \in Channels : FreeCall(i)
       \/ FreeReadBusy
       \/ FreeReadPend

\* the spin-waits with the hardware they wait for
NextLive ==
    \/ DmaLive
    \/ DfllLive
    \/ \E i \in Channels : HwResetDone(i)
    \/ \E i \in Channels : HwSwTrigger(i)
    \/ \E i \in Channels : HwGrant(i)
    \/ \E i \in Channels : HwComplete(i)
    \/ \E g \in {"enable", "dfllctrlb", "dfllmul"} : HwSync(g)

\* the mainline executes its next instruction; the hardware finishes a
\* software reset, serves a pending channel, ends its transfer and
\* synchronizes a written register
FairLive ==
    /\ WF_vars(InitReturn)
    /\ WF_vars(ResetReturn)
    /\ WF_vars(FreeReadBusy)
    /\ WF_vars(FreeReadPend)
    /\ \A i \in Channels : WF_vars(HwResetDone(i))
    /\ \A i \in Channels : WF_vars(HwGrant(i))
    /\ \A i \in Channels : WF_vars(HwComplete(i))
    /\ WF_vars(TokenWrite)
    /\ WF_vars(TokenWait)
    /\ WF_vars(DfllReturn)
    /\ \A g \in {"enable", "dfllctrlb", "dfllmul"} : WF_vars(HwSync(g))

SpecLive == Init /\ [][NextLive]_vars /\ FairLive

\* ================================================================== claims

\* positions of the mainline
InInit == pc = "init_wait"
InReset == pc = "reset_wait"
InXfer == pc \in {"xfer_busy", "xfer_pend"}
InFree == pc \in {"free_busy", "free_pend"}

\* the channel of the running operation
Self == frame.ch

\* the statuses the operation table of the channel state machine allows
\* each operation in
TableStatuses(op) ==
    CASE op = "init" -> {"Uninitialized"}
      [] op \in {"reset", "start"} -> {"Ready"}
      [] op \in {"xfer_complete", "stop", "free"} -> {"Busy"}
      [] OTHER -> Statuses

\* C1: an operation runs only on a channel whose status the operation table
\* lists for it; in particular init runs only on an Uninitialized channel,
\* never on a Ready or Busy one.
C1_OperationTable ==
    frame.op # "none" => status[Self] \in TableStatuses(frame.op)

\* C2: a channel leaves status Busy only by a step of stop() or free(); no
\* other operation (init, reset) changes the status of a Busy channel.
C2_BusyEndsOnlyByStopOrFree ==
    [][\A i \in Channels :
          (status[i] = "Busy" /\ status'[i] # "Busy")
              => (Self = i /\ frame.op \in {"stop", "free"})]_vars

\* the status edges of the channel state machine
StatusEdges ==
    {<<"Uninitialized", "Ready">>, <<"Ready", "Busy">>,
     <<"Busy", "Ready">>, <<"Ready", "Uninitialized">>}

\* C3: the status of a channel moves only along Uninitialized -> Ready,
\* Ready -> Busy, Busy -> Ready and Ready -> Uninitialized; a channel leaves
\* Uninitialized only by the return of init, that is after the software reset
\* has completed and with the priority level programmed, and it enters
\* Uninitialized only by reset(), so it is never Busy without an init since
\* its last reset().
C3_StatusEdges ==
    [][\A i \in Channels :
          status'[i] # status[i] =>
              /\ <<status[i], status'[i]>> \in StatusEdges
              /\ status[i] = "Uninitialized" =>
                    /\ frame.op = "init" /\ Self = i
                    /\ dmac.chan[i].swrst = 0
                    /\ dmac'.chan[i].lvl = frame.lvl
              /\ status'[i] = "Uninitialized" =>
                    /\ frame.op = "reset" /\ Self = i]_vars

\* C3 witness: a channel initialised with priority 1 has been started
C3_Witness ==
    \E i \in Channels :
        /\ status[i] = "Busy" /\ dmac.chan[i].enable = 1
        /\ dmac.chan[i].lvl = 1 /\ pc = "idle"

\* C4: xfer_complete() of channel i returns true iff bit i of BUSYCH and bit i
\* of PENDCH both read 0, whatever the bits of the other channels are (it
\* reads PENDCH only if the BUSYCH bit read 0); it writes no register and
\* changes no status.
C4_XferComplete ==
    [][(InXfer /\ pc' # pc) =>
          /\ dmac' = dmac /\ status' = status
          /\ pc = "xfer_busy" =>
                IF Bit(dmac.busych, Self) = 1
                THEN pc' = "idle" /\ ret' = FALSE
                ELSE pc' = "xfer_pend" /\ ret' = ret
          /\ pc = "xfer_pend" =>
                /\ pc' = "idle"
                /\ ret' = (Bit(dmac.pendch, Self) = 0)]_vars

\* C4 witness: xfer_complete() is about to return true for a channel, its two
\* bits clear, while the other channel is busy
C4_Witness ==
    /\ pc = "xfer_pend"
    /\ Bit(dmac.busych, Self) = 0 /\ Bit(dmac.pendch, Self) = 0
    /\ \E j \in Channels \ {Self} : Bit(dmac.busych, j) = 1

\* C5: free() stays in its loop as long as a poll of xfer_complete() is
\* false (BUSYCH bit set, or PENDCH bit set), returns a Ready channel at the
\* first poll whose two reads are both clear, and writes no register.
C5_FreeWaits ==
    [][InFree =>
          /\ dmac' # dmac => (pc' = pc /\ status' = status /\ frame' = frame)
          /\ pc' # pc =>
                /\ dmac' = dmac
                /\ pc = "free_busy" =>
                      /\ Bit(dmac.busych, Self) = 0
                      /\ pc' = "free_pend" /\ status' = status
                /\ pc = "free_pend" =>
                      IF Bit(dmac.pendch, Self) = 0
                      THEN pc' = "idle" /\ status'[Self] = "Ready"
                      ELSE pc' = "free_busy" /\ status' = status]_vars

\* C5 witness: free() is polling a channel that the hardware reports busy
C5_Witness ==
    /\ pc = "free_busy" /\ frame.op = "free"
    /\ Bit(dmac.busych, Self) = 1

\* a step of the mainline (calls excluded) inside the running operation
MainlineStep ==
    \/ InitReturn \/ ResetReturn \/ StartEnable \/ StartTrigger
    \/ XferReadBusy \/ XferReadPend \/ FreeReadBusy \/ FreeReadPend

C7_StartSoftwareTrigger ==
    [][frame.op = "start" =>
          /\ frame.src # DISABLE =>
                /\ Bit(dmac'.swtrigctrl, Self) <= Bit(dmac.swtrigctrl, Self)
                /\ pc # "start_trigger"
          /\ frame'.op # "start" =>
                /\ status'[Self] = "Busy"
                /\ dmac'.chan[Self].enable = 1
                /\ frame.src = DISABLE =>
                      /\ pc = "start_trigger"
                      /\ Bit(dmac'.swtrigctrl, Self) = 1
                      /\ dmac'.chan = dmac.chan
                /\ frame.src # DISABLE => dmac'.swtrigctrl = dmac.swtrigctrl]_vars

\* C7 witness: a channel started with source DISABLE is Busy and enabled, its
\* software trigger written, while the other channel was started with a
\* hardware source and has no software trigger
C7_Witness ==
    /\ pc = "idle"
    /\ \E i \in Channels :
          /\ status[i] = "Busy" /\ dmac.chan[i].enable = 1
          /\ dmac.chan[i].trigsrc = DISABLE /\ Bit(dmac.swtrigctrl, i) = 1
          /\ \E j \in Channels \ {i} :
                /\ status[j] = "Busy" /\ dmac.chan[j].enable = 1
                /\ dmac.chan[j].trigsrc # DISABLE /\ Bit(dmac.swtrigctrl, j) = 0

\* C8: within start() the trigger source and action hold the requested
\* values from its first access on, in particular at the write of the enable
\* bit, so the channel is not enabled by start with an older configuration;
\* the trigger fields are not written again, and the software trigger is
\* written only when the enable bit is already set.
C8_StartOrder ==
    /\ [](frame.op = "start" =>
             /\ dmac.chan[Self].trigsrc = frame.src
             /\ dmac.chan[Self].trigact = frame.act)
    /\ [][(frame'.op = "start" /\ frame.op # "start") =>
             dmac'.chan[frame'.ch].enable = dmac.chan[frame'.ch].enable]_vars
    /\ [][frame.op = "start" =>
             /\ dmac'.chan[Self].enable # dmac.chan[Self].enable =>
                   /\ pc = "start_enable"
                   /\ dmac'.chan[Self].enable = 1
             /\ dmac'.swtrigctrl # dmac.swtrigctrl /\ Bit(dmac'.swtrigctrl, Self) = 1 =>
                   /\ pc = "start_trigger"
                   /\ dmac.chan[Self].enable = 1]_vars

\* C8 witness: start has written a configuration that differs from the one
\* of the previous transfer and has not yet set the enable bit
C8_Witness ==
    /\ pc = "start_enable"
    /\ dmac.chan[Self].enable = 0
    /\ dmac.chan[Self].trigsrc = 1 /\ dmac.chan[Self].trigact = 2
    /\ frame.src = 1 /\ frame.act = 2

\* C9: init(lvl) sets the reset bit of its channel, writes nothing while that
\* bit reads set, and programs the priority level only once it reads clear;
\* at its return the reset bit is clear, the priority field is lvl, the
\* enable bit is clear and the handle is Ready.
C9_InitResetThenPriority ==
    [][/\ (frame'.op = "init" /\ frame.op # "init") =>
            /\ dmac'.chan[frame'.ch].swrst = 1
            /\ pc' = "init_wait"
       /\ (InInit /\ dmac.chan[Self].swrst = 1) =>
            /\ pc' = pc
            /\ dmac'.chan[Self] \in {dmac.chan[Self], ResetChan}
       /\ (InInit /\ pc' # pc) =>
            /\ dmac.chan[Self].swrst = 0
            /\ dmac'.chan[Self].swrst = 0
            /\ dmac'.chan[Self].lvl = frame.lvl
            /\ dmac'.chan[Self].enable = 0
            /\ status'[Self] = "Ready"]_vars

\* C9 witness: init(LVL1) waits for the reset of a channel whose enable bit
\* was left set by an earlier transfer
C9_Witness ==
    /\ InInit /\ frame.lvl = 1
    /\ dmac.chan[Self].swrst = 1
    /\ dmac.chan[Self].enable = 1

\* the operations that are defined on a handle of status st
InvocableOps(st) ==
    {op \in {"init", "reset", "start", "software_trigger", "xfer_complete",
             "stop", "free"} :
        \/ op = "init" /\ st \in InitOn
        \/ op = "reset" /\ st \in ResetOn
        \/ op = "start" /\ st \in StartOn
        \/ op \in {"software_trigger", "xfer_complete", "stop", "free"} /\ st \in BusyOn}

\* C10: reset() of a channel made Ready by init() returns a handle with the
\* status and the invocable operations of a freshly constructed channel, and
\* the channel's registers in their startup state (reset bit, priority,
\* trigger source and action, enable all clear).
C10_InitResetRoundTrip ==
    [][(InReset /\ pc' # pc) =>
          /\ status'[Self] = "Uninitialized"
          /\ InvocableOps(status'[Self]) = {"init"}
          /\ dmac'.chan[Self].swrst = 0
          /\ dmac'.chan[Self].lvl = 0
          /\ dmac'.chan[Self].trigsrc = 0
          /\ dmac'.chan[Self].trigact = 0
          /\ dmac'.chan[Self].enable = 0]_vars

\* C10 witness: the software reset of a Ready channel has completed and
\* reset() is about to return, while the other channel keeps the priority
\* and the enable bit that init(LVL1) and start gave it
C10_Witness ==
    /\ InReset /\ ~SwrstSet(dmac, Self)
    /\ status[Self] = "Ready"
    /\ dmac.chan[Self] = ResetChan
    /\ \E j \in Channels \ {Self} : dmac.chan[j].lvl = 1 /\ dmac.chan[j].enable = 1

\* ---- C11
\* interrupt source at bit k of the enable register, as named by flags f
Named(f, k) == (k = 0 /\ f.terr) \/ (k = 1 /\ f.tcmpl) \/ (k = 2 /\ f.susp)

\* C11: the write of enable_interrupts(flags) / disable_interrupts(flags)
\* carries TERR, TCMPL, SUSP at bits 0, 1, 2 exactly as flags names them and
\* zero in the reserved bits 3..7; it sets (clears) the named interrupt
\* enables of its own channel, leaves every enable not named, every other
\* register field, the other channels and every status as they were
C11_InterruptFrame ==
    [][(pc = "inten_write" /\ pc' = "idle") =>
        LET i == frame.ch
            bits == FlagsToBits(frame.flags)
            old == dmac.chan[i].inten
            new == dmac'.chan[i].inten
        IN  /\ \A k \in 0..7 : Bit(bits, k) = B(Named(frame.flags, k))
            /\ \A k \in 0..7 :
                  Bit(new, k) = IF Named(frame.flags, k)
                                THEN B(frame.op = "enable_interrupts")
                                ELSE Bit(old, k)
            /\ \A k \in 3..7 : Bit(new, k) = 0
            /\ dmac' = [dmac EXCEPT !.chan[i].inten = new]
            /\ status' = status]_vars

\* C11 witness: disable_interrupts(terr, susp) is about to write on a Busy
\* channel that has all three sources enabled, the other channel has tcmpl
\* alone enabled
C11_Witness ==
    /\ pc = "inten_write"
    /\ frame.op = "disable_interrupts"
    /\ frame.flags = [terr |-> TRUE, tcmpl |-> FALSE, susp |-> TRUE]
    /\ status[frame.ch] = "Busy"
    /\ dmac.chan[frame.ch].inten = 7
    /\ \E j \in Channels \ {frame.ch} : dmac.chan[j].inten = 2

\* ---- C12
\* C12: on the shared-selector variant, at every position of the mainline
\* inside a with_chid closure the selector holds the id of the channel the
\* closure works on, with the interrupt handler free to run callback() of
\* another channel (which selects that channel) whenever interrupts are not
\* masked
C12_SelectorHeld ==
    (variant = "samd21" /\ InClosure) => dmac.chid = frame.ch

\* C12 witness: the mainline is inside the closure of channel 0 while the
\* Busy channel 1 has an interrupt flag raised for the handler
C12_Witness ==
    /\ variant = "samd21"
    /\ pc = "inten_write"
    /\ frame.ch = 0
    /\ status[1] = "Busy"
    /\ dmac.chan[1].intflag # 0
    /\ dmac.chid = 0

\* ---- C14
\* the running DFLL operation makes a write / ends a wait / returns
WriteStep == prog # <<>> /\ Head(prog).k = "write" /\ prog' = Tail(prog)
WaitStep == prog # <<>> /\ Head(prog).k = "wait" /\ prog' = Tail(prog)
ReturnStep == prog # <<>> /\ Head(prog).k = "ret" /\ prog' = Tail(prog)

\* C14: every write of a token primitive is followed by a wait on the
\* sync-busy bit of the register group written (DFLLCTRLA: ENABLE, DFLLMUL:
\* DFLLMUL, DFLLCTRLB: DFLLCTRLB), and no write is issued and no operation
\* returns while the sync-busy bit of an earlier write is still set
C14_WaitsOnOwnSyncBit ==
    [][/\ WriteStep =>
            /\ osc.sync = {}
            /\ Head(prog').k = "wait"
            /\ Head(prog').bit = SyncBitOf(Head(prog).reg)
       /\ ReturnStep => osc.sync = {}]_vars

\* ---- C15
\* the stored tuning values are in the DFLLMUL fields and synchronized
TuningWritten ==
    /\ osc.fstep = dfll.fstep
    /\ osc.cstep = dfll.cstep
    /\ osc.mul = dfll.mul
    /\ "dfllmul" \notin osc.sync

\* C15: Dfll<ClosedLoop>::enable writes the fine step, then the coarse step,
\* then the multiplication factor, each synchronized before the next write,
\* and writes the closed-loop mode bit only when all three fields hold the
\* stored values and DFLLMUL is synchronized; from that write to the return
\* the fields keep the stored values
C15_TuningBeforeMode ==
    [][/\ (WriteStep /\ dfll.mode = "closed" /\ Head(prog).field = "cstep") =>
            (osc.fstep = dfll.fstep /\ "dfllmul" \notin osc.sync)
       /\ (WriteStep /\ dfll.mode = "closed" /\ Head(prog).field = "mul") =>
            (osc.fstep = dfll.fstep /\ osc.cstep = dfll.cstep /\ "dfllmul" \notin osc.sync)
       /\ (WriteStep /\ dfll.mode = "closed" /\ Head(prog).field = "mode") =>
            (Head(prog).val = 1 /\ TuningWritten /\ osc'.mode = 1)
       /\ (dfll.mode = "closed" /\ prog # <<>> /\ Len(prog) <= 2
             /\ prog[Len(prog)].enabled) =>
            (osc.fstep = dfll.fstep /\ osc.cstep = dfll.cstep /\ osc.mul = dfll.mul
             /\ osc.mode = 1)]_vars

\* C15 witness: enable of a closed-loop Dfll is about to set the mode bit,
\* the three fields hold the stored values, the mode bit is still clear
C15_Witness ==
    /\ prog # <<>>
    /\ Head(prog) = Wr("dfllctrlb", "mode", 1)
    /\ dfll.mode = "closed"
    /\ dfll.fstep = 2 /\ dfll.cstep = 1 /\ dfll.mul = 1000
    /\ TuningWritten
    /\ osc.mode = 0

\* ---- C16
\* C16: freq() is the base frequency times the multiplication factor: an
\* open-loop Dfll reports 48 MHz, a closed-loop Dfll the frequency of its
\* reference clock times the factor (32.768 kHz x 1000 = 32.768 MHz, 1 kHz x
\* 1000 = 1 MHz), bare, while enable runs and wrapped in Enabled alike
C16_Freq ==
    /\ dfll.mode = "open" => Freq(dfll) = 48000000
    /\ dfll.mode = "closed" => Freq(dfll) = PclkFreq(dfll.ref) * dfll.mul
    /\ (dfll.mode = "closed" /\ dfll.ref = 1 /\ dfll.mul = 1000) => Freq(dfll) = 32768000
    /\ (dfll.mode = "closed" /\ dfll.ref = 2 /\ dfll.mul = 1000) => Freq(dfll) = 1000000

\* C16 witness: an enabled closed-loop Dfll on the 1 kHz reference with factor
\* 1000, reached through to_closed_mode (the enable bit is set)
C16_Witness ==
    /\ Idle
    /\ dfll.enabled /\ dfll.mode = "closed"
    /\ dfll.ref = 2 /\ dfll.mul = 1000
    /\ osc.enable = 1
    /\ Freq(dfll) = 1000000

\* ---- C17
\* dependents of the DFLL: the count of the Enabled wrapper, or of the wrapper
\* the running operation will return
Dependents == IF prog = <<>> THEN dfll.n ELSE prog[Len(prog)].n

\* C17: disable() is entered only on an Enabled Dfll with no dependents, and
\* the enable bit is never cleared while a dependent is counted
C17_DisableAtZero ==
    [][/\ (prog = <<>> /\ prog' # <<>> /\ Head(prog') = Wr("dfllctrla", "enable", 0)) =>
            (dfll.enabled /\ dfll.n = 0)
       /\ (osc.enable = 1 /\ osc'.enable = 0) => Dependents = 0]_vars

\* C17 witness: disable is about to clear the enable bit of a running DFLL
\* that has no dependents
C17_Witness ==
    /\ prog # <<>>
    /\ Head(prog) = Wr("dfllctrla", "enable", 0)
    /\ osc.enable = 1
    /\ dfll.enabled /\ dfll.n = 0
    /\ ~holder.gclk0

\* ---- C18
\* the loop mode of an enabled DFLL is switched
SwitchStep == dfll.enabled /\ dfll.mode # "none" /\ dfll'.mode \notin {dfll.mode, "none"}

\* C18: to_closed_mode / to_open_mode are entered only on an Enabled Dfll
\* with exactly one dependent and with the Gclk0 handle; they return the
\* Dfll of the other mode enabled with count 1 and hand the Gclk0 handle back
C18_SwitchAtOne ==
    [][/\ SwitchStep =>
            /\ prog = <<>>
            /\ dfll.n = 1 /\ holder.gclk0
            /\ prog' # <<>> /\ prog'[Len(prog')] \in
                   {Ret(TRUE, 1, TRUE, p) : p \in PclkIds \cup {NoPclk}}
       /\ (ReturnStep /\ Head(prog).gclk0) =>
            /\ dfll'.enabled /\ dfll'.n = 1 /\ dfll'.mode = dfll.mode
            /\ ~holder.gclk0 /\ holder'.gclk0]_vars

\* C18 witness: to_open_mode returned: open-loop Dfll enabled with count 1,
\* Gclk0 handle back, the DFLLMUL fields still hold the closed-loop tuning
C18_Witness ==
    /\ Idle
    /\ dfll.enabled /\ dfll.mode = "open" /\ dfll.n = 1
    /\ holder.gclk0
    /\ osc.enable = 1 /\ osc.mode = 0 /\ osc.mul = 500

\* ---- C19
\* C19: to_closed_mode(gclk0, pclk, ...) followed by to_open_mode(gclk0) ends
\* in an enabled open-loop Dfll with count 1 and 48 MHz, and the Pclk handle
\* returned is the one that was passed to to_closed_mode: it is the stored
\* reference clock, it was not at the caller meanwhile, and with it the
\* caller holds every reference clock again
C19_RoundTrip ==
    [][/\ (SwitchStep /\ dfll'.mode = "closed") =>
            holder.pclks \ holder'.pclks = {dfll'.ref}
       /\ (SwitchStep /\ dfll'.mode = "open") =>
            (prog' # <<>> /\ prog'[Len(prog')].pclk = dfll.ref)
       /\ (ReturnStep /\ Head(prog).pclk # NoPclk) =>
            /\ dfll'.mode = "open" /\ dfll'.enabled /\ dfll'.n = 1
            /\ Freq(dfll') = 48000000
            /\ Head(prog).pclk \notin holder.pclks
            /\ holder'.pclks = PclkIds
            /\ holder'.gclk0]_vars

\* C19 witness: to_open_mode is about to return reference clock 2 after a
\* closed-loop run with factor 1000
C19_Witness ==
    /\ prog = <<Ret(TRUE, 1, TRUE, 2)>>
    /\ dfll.mode = "open"
    /\ holder.pclks = {1}
    /\ osc.mode = 0 /\ osc.mul = 1000 /\ osc.enable = 1

\* ---- C20
\* C20: the token is either at the caller or inside the one Dfll value (bare
\* or enabled), never both and never neither; the Dfll value ends only by
\* free() on a disabled Dfll, which hands the token back, with the reference
\* clock in the closed-loop case
C20_TokenHeldOnce ==
    /\ [](holder.token <=> dfll.mode = "none")
    /\ [][(dfll.mode # "none" /\ dfll'.mode = "none") =>
              /\ ~dfll.enabled /\ prog = <<>>
              /\ ~holder.token /\ holder'.token
              /\ dfll.mode = "closed" =>
                    (dfll.ref \notin holder.pclks /\ holder'.pclks = holder.pclks \cup {dfll.ref})
              /\ dfll.mode = "open" => holder'.pclks = holder.pclks]_vars

\* C20 witness: the token and both reference clocks are back at the caller
\* after a closed-loop run (DFLLMUL holds its factor) and a later open-loop
\* run (mode bit clear) that was disabled and freed
C20_Witness ==
    /\ holder.token
    /\ dfll.mode = "none"
    /\ osc.mul = 500 /\ osc.enable = 0 /\ osc.mode = 0
    /\ holder.pclks = PclkIds

\* ---- C21
\* C21: a running DFLL is not reconfigured: the DFLLMUL fields (fine step,
\* coarse step, multiplication factor) are written only while the enable bit
\* of DFLLCTRLA is clear
C21_TuningOnlyWhileDisabled ==
    [][(WriteStep /\ Head(prog).reg = "dfllmul") => osc.enable = 0]_vars

\* ---- C22
\* C22: every spin-wait ends: the software-reset wait of init and reset, the
\* BUSY / PENDING wait of free (and of stop, which calls it), and each
\* sync-busy wait of a DFLL operation
C22_SpinWaitsEnd ==
    /\ (pc \in {"init_wait", "reset_wait"}) ~> (pc = "idle")
    /\ (pc \in {"free_busy", "free_pend"}) ~> (pc = "idle")
    /\ (prog # <<>>) ~> (prog = <<>>)

\* C22 witness: free polls a channel the hardware reports busy while a
\* register write of the DFLL is still synchronizing
C22_Witness ==
    /\ pc = "free_busy"
    /\ frame.op = "free"
    /\ ~BusyClear(dmac, frame.ch)
    /\ osc.sync # {}

\* ---- C23
\* interrupt enable k of channel i is cleared by this step
EnableLost(i, k) == Bit(dmac.chan[i].inten, k) = 1 /\ Bit(dmac'.chan[i].inten, k) = 0

\* the step is the write of disable_interrupts on channel i naming source k
DisableWrite(i, k) ==
    /\ pc = "inten_write" /\ pc' = "idle"
    /\ frame.op = "disable_interrupts"
    /\ frame.ch = i
    /\ Named(frame.flags, k)

\* C23 as stated: an enabled interrupt source of a channel stays enabled
\* across every step (init, start, stop, free included) until
\* disable_interrupts names it
C23_EnablesPersist ==
    [][\A i \in Channels, k \in 0..2 : EnableLost(i, k) => DisableWrite(i, k)]_vars

\* C23 amended: an enabled interrupt source stays enabled across start, stop,
\* free and every other step until disable_interrupts names it or the
\* software reset of its channel, issued by init or reset on that channel,
\* completes and puts the channel registers back in their startup state
C23_EnablesPersistUntilReset ==
    [][\A i \in Channels, k \in 0..2 :
          EnableLost(i, k) =>
            \/ DisableWrite(i, k)
            \/ /\ dmac.chan[i].swrst = 1 /\ dmac'.chan[i].swrst = 0
               /\ pc \in {"init_wait", "reset_wait"}
               /\ frame.ch = i]_vars

\* C23 witness: init waits for the software reset of a channel that has terr
\* and tcmpl enabled, the other channel is Busy with all three sources enabled
C23_Witness ==
    /\ pc = "init_wait"
    /\ dmac.chan[frame.ch].swrst = 1
    /\ dmac.chan[frame.ch].inten = 3
    /\ \E j \in Channels \ {frame.ch} : status[j] = "Busy" /\ dmac.chan[j].inten = 7

\* ---- C24
\* C24: xfer_complete() returns true, and free() returns, only when the
\* channel is neither pending nor busy at that moment, with the hardware free
\* to take the channel from pending to busy to idle between the BUSYCH read
\* and the PENDCH read
C24_NoFalseCompletion ==
    [][((pc = "xfer_pend" /\ pc' = "idle" /\ ret') \/ (pc = "free_pend" /\ pc' = "idle")) =>
          (Bit(dmac.busych, frame.ch) = 0 /\ Bit(dmac.pendch, frame.ch) = 0)]_vars

\* ---- C25
\* C25: whenever an Enabled<Dfll<Mode>, N> exists the enable bit of DFLLCTRLA
\* is set, and the bit is cleared by the write of disable() only
C25_EnabledMeansRunning ==
    /\ [](dfll.enabled => osc.enable = 1)
    /\ [][(osc.enable = 1 /\ osc'.enable = 0) =>
              (WriteStep /\ prog[Len(prog)] = Ret(FALSE, 0, FALSE, NoPclk))]_vars

\* ---- C26
\* C26: the mode bit of DFLLCTRLB agrees with the typed mode of an enabled
\* DFLL: 0 while Enabled<Dfll<OpenLoop>, N> exists, 1 while
\* Enabled<Dfll<ClosedLoop>, N> exists, whatever runs came before
C26_ModeBitAgrees ==
    /\ (dfll.enabled /\ dfll.mode = "open") => osc.mode = 0
    /\ (dfll.enabled /\ dfll.mode = "closed") => osc.mode = 1

\* C26 witness: an open-loop DFLL is enabled after an earlier closed-loop run
\* (DFLLMUL still holds its factor), the mode bit is clear
C26_Witness ==
    /\ Idle
    /\ dfll.enabled /\ dfll.mode = "open" /\ dfll.n = 0
    /\ osc.mul = 1000 /\ osc.cstep = 2
    /\ osc.mode = 0

\* ---- C27
\* C27: while Enabled<Dfll<ClosedLoop>, N> exists the DFLLMUL fields equal the
\* values stored in the wrapper, so freq() is the reference frequency times
\* the factor programmed; the stored values change only on a Dfll that is not
\* enabled
C27_FieldsAreStored ==
    /\ [](dfll.enabled /\ dfll.mode = "closed" =>
            /\ osc.mul = dfll.mul /\ osc.cstep = dfll.cstep /\ osc.fstep = dfll.fstep
            /\ Freq(dfll) = PclkFreq(dfll.ref) * osc.mul)
    /\ [][(dfll.mode = "closed" /\ dfll'.mode = "closed"
           /\ <<dfll'.mul, dfll'.cstep, dfll'.fstep>> # <<dfll.mul, dfll.cstep, dfll.fstep>>) =>
              (~dfll.enabled /\ ~dfll'.enabled /\ prog = <<>>)]_vars

\* C27 witness: a closed-loop DFLL is enabled on the 1 kHz reference; wrapper
\* and DFLLMUL agree on factor 500, coarse step 2, fine step 1
C27_Witness ==
    /\ Idle
    /\ dfll.enabled /\ dfll.mode = "closed" /\ dfll.ref = 2
    /\ dfll.mul = 500 /\ dfll.cstep = 2 /\ dfll.fstep = 1
    /\ osc.mul = 500 /\ osc.cstep = 2 /\ osc.fstep = 1

\* ---- C28
\* C28: Dfll<OpenLoop>::enable writes the mode bit to 0 before it sets the
\* enable bit: at the write that sets ENABLE the mode bit is 0 and the ENABLE
\* group is synchronized; it returns Enabled with count 0
C28_OpenModeBeforeEnable ==
    [][/\ (WriteStep /\ dfll.mode = "open" /\ Head(prog) = Wr("dfllctrla", "enable", 1)) =>
            (osc.mode = 0 /\ "enable" \notin osc.sync)
       /\ (ReturnStep /\ dfll.mode = "open" /\ Head(prog) = Ret(TRUE, 0, FALSE, NoPclk)) =>
            (dfll'.enabled /\ dfll'.n = 0 /\ osc.mode = 0 /\ osc.enable = 1)]_vars

\* C28 witness: enable of an open-loop Dfll is about to set the enable bit
\* after a closed-loop run; the mode bit is already clear
C28_Witness ==
    /\ prog # <<>>
    /\ Head(prog) = Wr("dfllctrla", "enable", 1)
    /\ prog[Len(prog)] = Ret(TRUE, 0, FALSE, NoPclk)
    /\ dfll.mode = "open"
    /\ osc.mode = 0 /\ osc.enable = 0 /\ osc.mul = 500

\* ---- C29
\* the check of callback for the flag at bit k runs
CbCheck(k) ==
    \/ k = 1 /\ pc = "cb_tcmpl" /\ pc' = "cb_terr"
    \/ k = 0 /\ pc = "cb_terr" /\ pc' = "cb_susp"
    \/ k = 2 /\ pc = "cb_susp" /\ pc' = "idle"

\* C29: callback acknowledges each interrupt flag on its own: the check of a
\* flag clears that flag if it is set and leaves the other flags of the
\* channel as they are, so every flag that is set is seen by its own check
C29_AcksSeparately ==
    [][\A k \in 0..2 : CbCheck(k) =>
          \A m \in 0..2 :
              Bit(dmac'.chan[frame.ch].intflag, m) =
                  IF m = k THEN 0 ELSE Bit(dmac.chan[frame.ch].intflag, m)]_vars

\* ---- C30
\* the step writes the software-trigger register for channel i
TriggerWrite(i) ==
    \/ pc = "start_trigger" /\ pc' = "idle" /\ frame.ch = i
    \/ /\ pc = "idle" /\ pc' = "idle"
       /\ dmac'.swtrigctrl # dmac.swtrigctrl
       /\ dmac'.pendch = dmac.pendch
       /\ Bit(dmac'.swtrigctrl, i) = 1

\* C30: a software trigger for channel i, by start with the DISABLE source
\* or by software_trigger, sets bit i of the software-trigger register and
\* leaves the trigger bit of every other channel as it is; software_trigger
\* changes no status and no channel register
C30_TriggerOwnBitOnly ==
    [][\A i \in Channels : TriggerWrite(i) =>
          /\ Bit(dmac'.swtrigctrl, i) = 1
          /\ \A j \in Channels \ {i} : Bit(dmac'.swtrigctrl, j) = Bit(dmac.swtrigctrl, j)
          /\ dmac'.chan = dmac.chan
          /\ pc = "idle" => status' = status]_vars

\* ---- C31
\* the control state of one channel: every field of its control registers
\* and its interrupt enables
ControlState(c) ==
    <<c.swrst, c.enable, c.trigsrc, c.trigact, c.lvl, c.threshold, c.burstlen, c.inten>>

\* the step is made by an operation on channel i: a method of the handle
\* Channel<i, _> is entered or makes its next access, or the interrupt
\* handler runs callback() of channel i
OperationOn(i) ==
    \/ \E lvl \in PriorityLevels : InitCall(i, lvl)
    \/ ResetCall(i)
    \/ \E src \in TriggerSources, act \in TriggerActions : StartCall(i, src, act)
    \/ StopCall(i)
    \/ FreeCall(i)
    \/ \E f \in InterruptFlags : EnableInterruptsCall(i, f)
    \/ \E f \in InterruptFlags : DisableInterruptsCall(i, f)
    \/ \E n \in FifoValues : FifoThreshold(i, n)
    \/ \E n \in FifoValues : BurstLength(i, n)
    \/ /\ pc # "idle" /\ frame.ch = i
       /\ \/ InitReturn
          \/ ResetReturn
          \/ StartEnable
          \/ InterruptsWrite
          \/ FreeReadBusy
          \/ FreeReadPend
    \/ Callback(i)

\* C31: no operation on channel i changes the control state (enable bit,
\* trigger source and action, priority, FIFO fields, interrupt enables) of
\* a channel j # i, on the per-channel-block family and on the
\* shared-selector family, with the interrupt handler running callback() of
\* j between any two unmasked accesses of the mainline operation on i
C31_NoCrossChannelWrite ==
    [][\A i \in Channels : \A j \in Channels \ {i} :
          OperationOn(i) => ControlState(dmac'.chan[j]) = ControlState(dmac.chan[j])]_vars

\* C31 witness: shared-selector family; the mainline is inside start() of
\* channel 0, between its two register writes, the selector on channel 0,
\* while channel 1 is Busy, fully configured, with an interrupt flag raised
\* for the handler
C31_Witness ==
    /\ variant = "samd21"
    /\ pc = "start_enable"
    /\ frame.ch = 0
    /\ dmac.chid = 0
    /\ status[1] = "Busy"
    /\ ControlState(dmac.chan[1]) = <<0, 1, 1, 2, 1, 0, 0, 3>>
    /\ dmac.chan[1].intflag # 0
    /\ dmac.chan[0].inten = 3

\* ---- C32
\* C32: freq() is the mathematical product of the base frequency and the
\* multiplication factor, for every reference clock and every factor that
\* in_closed_mode or set_multiplication_factor accepts: the upper half of
\* the result is the product divided by 2^16, the lower half the product
\* modulo 2^16
C32_FreqExact ==
    dfll.mode # "none" =>
        /\ Freq(dfll) \div 65536 = MulHalves(dfll.freq, dfll.mul).hi
        /\ Freq(dfll) % 65536 = MulHalves(dfll.freq, dfll.mul).lo

\* ---- C33
\* C33: on a Ready channel fifo_threshold(n) changes the threshold field of
\* the channel's control register and nothing else, burst_length(n) the
\* burst-length field and nothing else: enable bit, trigger source and
\* action, priority, the other of the two fields and every other channel
\* are as before, and the channel stays Ready
C33_FifoFrame ==
    [][\A i \in Channels, n \in FifoValues :
          /\ FifoThreshold(i, n) =>
                /\ dmac' = [dmac EXCEPT !.chan[i].threshold = n]
                /\ status[i] = "Ready" /\ status' = status
          /\ BurstLength(i, n) =>
                /\ dmac' = [dmac EXCEPT !.chan[i].burstlen = n]
                /\ status[i] = "Ready" /\ status' = status]_vars

\* C33 witness: a Ready channel that was started and freed (enable bit set,
\* trigger source and action, priority and interrupt enables programmed)
\* with the threshold set and the burst length left at its reset value
C33_Witness ==
    /\ variant = "samd51"
    /\ pc = "idle"
    /\ status[0] = "Ready"
    /\ ControlState(dmac.chan[0]) = <<0, 1, 1, 2, 1, 1, 0, 3>>

TypeOK ==
    /\ variant \in Variants
    /\ status \in [Channels -> Statuses]
    /\ ret \in BOOLEAN
    /\ dmac.chid \in Channels
====
